---- MODULE Spec2Model ----
(***************************************************************************)
(* A model of the agentic weather workflow:                               *)
(*   src/src/tools/weather_tools.py   format_alert, get_weather_alert_by_code *)
(*   src/src/agents/base_agent.py     BaseAgent.__init__                  *)
(*   src/src/agents/weather_agent.py  WeatherAgent.__init__, execute      *)
(*                                                                         *)
(* A Python str that the code builds is modelled as the sequence of the   *)
(* pieces it is built from (literal parts and interpolated values); the   *)
(* real string is the concatenation of the pieces.  The empty string is   *)
(* the empty sequence.                                                     *)
(***************************************************************************)
EXTENDS Integers, Sequences, FiniteSets, TLC

\* ------------------------------------------------------------------ bounds
MaxFeatures == 2

\* ------------------------------------------------------- JSON of a response
\* The five property keys format_alert reads.
FieldKeys == {"event", "description", "severity", "areaDesc", "instruction"}

\* JSON null as the value of a key that is present.
JsonNull == "<json null>"

\* The value the model's responses carry under each key.
FieldValue(k) ==
    CASE k = "event"       -> "Flood Warning"
      [] k = "description" -> "River rising"
      [] k = "severity"    -> "Severe"
      [] k = "areaDesc"    -> "Napa"
      [] k = "instruction" -> "Move to higher ground"

EmptyDict == [k \in {} |-> ""]

\* A `properties` object: any subset of the five keys, and the full object
\* with "instruction": null.
PropsDicts ==
    { [k \in S |-> FieldValue(k)] : S \in SUBSET FieldKeys }
    \cup { [k \in FieldKeys |-> IF k = "instruction" THEN JsonNull ELSE FieldValue(k)] }

\* One element of `features`:
\*   not_dict    a JSON value that is no object (a number)
\*   no_props    an object without the key "properties"
\*   props_null  an object with "properties": null
\*   props_num   an object with "properties": <a non-zero number>
\*   props       an object with "properties": <object>
Features ==
    { [kind |-> "not_dict", props |-> EmptyDict],
      [kind |-> "no_props", props |-> EmptyDict],
      [kind |-> "props_null", props |-> EmptyDict],
      [kind |-> "props_num", props |-> EmptyDict] }
    \cup { [kind |-> "props", props |-> d] : d \in PropsDicts }

SeqUpTo(S, n) == UNION { [1..m -> S] : m \in 0..n }

\* The value under the key "features":
\*   absent  the key is not there      null  JSON null
\*   zero    the number 0              num   a non-zero number
\*   list    an array of features
FeaturesValues ==
    { [kind |-> k, items |-> <<>>] : k \in {"absent", "null", "zero", "num"} }
    \cup { [kind |-> "list", items |-> fs] : fs \in SeqUpTo(Features, MaxFeatures) }

\* JSON documents that are no object:
\*   null, false, true
\*   zero                0 (or 0.0)
\*   num                 a non-zero number
\*   empty_str           ""
\*   str                 a string without the text "features" in it ("abc")
\*   str_with_features   a string with the text "features" in it
\*   empty_list          []
\*   list                a non-empty array that does not hold the string
\*                       "features" ([{"a": 1}])
\*   list_with_features  an array that holds the string "features"
NonObjectKinds ==
    {"null", "false", "true", "zero", "num", "empty_str", "str", "str_with_features",
     "empty_list", "list", "list_with_features"}

\* A response body:
\*   unparseable  response.json() raises
\*   a kind of NonObjectKinds
\*   obj          an object; other_keys says whether it has a key besides
\*                "features" (the API's "type", "title", ...)
Bodies ==
    { [kind |-> k, other_keys |-> FALSE, features |-> [kind |-> "absent", items |-> <<>>]] :
        k \in {"unparseable"} \cup NonObjectKinds }
    \cup { [kind |-> "obj", other_keys |-> o, features |-> f] :
             o \in BOOLEAN, f \in FeaturesValues }

StatusCodes == {200, 404, 500, 503}

NoBody == [kind |-> "null", other_keys |-> FALSE,
           features |-> [kind |-> "absent", items |-> <<>>]]

\* What `await client.get(...)` gives: a transport exception, or a response.
\* The body is looked at only after raise_for_status, so only a 2xx response
\* carries the bodies of interest.
HttpOutcomes ==
    { [transport |-> "error", status |-> 0, body |-> NoBody] }
    \cup { [transport |-> "ok", status |-> s, body |-> NoBody] : s \in StatusCodes \ {200} }
    \cup { [transport |-> "ok", status |-> 200, body |-> b] : b \in Bodies }

\* --------------------------------------------------------- tool results
\* The tool's return value: None, or a str (its pieces).
NoneValue == [is_none |-> TRUE, text |-> <<>>]
StrValue(t) == [is_none |-> FALSE, text |-> t]

\* What a Python call does: returns a value or raises an exception class.
Returns(v) == [exc |-> "", value |-> v]
Raises(cls) == [exc |-> cls, value |-> NoneValue]

NO_ALERTS == <<"No alerts found for the given state.">>
UNABLE_OR_NO_ALERTS == <<"Unable to fetch alerts or No alerts found for the given state.">>
SEPARATOR == "\n---\n"

\* str(v) inside an f-string: None prints as "None".
PyStr(v) == IF v = JsonNull THEN "None" ELSE v

\* A faulty props.get: the same default for every key.
DictGet_OneDefault(d, key, default) == IF key \in DOMAIN d THEN d[key] ELSE "Unknown"

\* props.get(key, default)
DictGet(d, key, default) == IF key \in DOMAIN d THEN d[key] ELSE default

\* format_alert: AttributeError on a feature that is no dict (alert.get); ""
\* when the properties are missing, null or empty; AttributeError on
\* properties that are a non-zero number (props.get); the five-line block
\* otherwise.
format_alert(alert) ==
    IF alert.kind = "not_dict" THEN Raises("AttributeError")
    ELSE IF alert.kind = "props_num" THEN Raises("AttributeError")
    ELSE LET props == IF alert.kind = "props" THEN alert.props ELSE EmptyDict
         IN IF alert.kind # "props" \/ DOMAIN props = {}
            THEN Returns(StrValue(<<>>))
            ELSE Returns(StrValue(
                   << "\n        Event: ", PyStr(DictGet(props, "event", "Unknown")),
                      "\n        Description: ",
                          PyStr(DictGet(props, "description", "No description available")),
                      "\n        Severity: ", PyStr(DictGet(props, "severity", "Unknown")),
                      "\n        Area: ", PyStr(DictGet(props, "areaDesc", "Unknown")),
                      "\n        Instructions: ",
                          PyStr(DictGet(props, "instruction", "No instructions available")),
                      "\n    " >>))

\* "\n---\n".join(alerts)
RECURSIVE Join(_)
Join(blocks) ==
    IF Len(blocks) = 0 THEN <<>>
    ELSE IF Len(blocks) = 1 THEN blocks[1]
    ELSE blocks[1] \o <<SEPARATOR>> \o Join(Tail(blocks))

\* `not result`: None, False, 0, "", [] and {} are falsy.
BodyFalsy(b) ==
    \/ b.kind \in {"null", "false", "zero", "empty_str", "empty_list"}
    \/ b.kind = "obj" /\ ~b.other_keys /\ b.features.kind = "absent"

\* A faulty variant: the test for the key left out.
FeaturesNotIn_Never(b) == Returns(FALSE)

\* `"features" not in result`: None, a number or a bool is no container (TypeError);
\* on an array `in` is membership of the element "features", on a string it
\* is the substring test, on an object the test for the key.
FeaturesNotIn(b) ==
    IF b.kind \in {"null", "num", "true", "zero", "false"} THEN Raises("TypeError")
    ELSE IF b.kind \in {"list", "str", "empty_list", "empty_str"} THEN Returns(TRUE)
    ELSE IF b.kind \in {"list_with_features", "str_with_features"} THEN Returns(FALSE)
    ELSE Returns(b.features.kind = "absent")

\* `not result.get("features")`: None (the key absent, or null), 0 and [] are
\* falsy.
FeaturesFalsy(f) ==
    f.kind \in {"absent", "null", "zero"} \/ (f.kind = "list" /\ Len(f.items) = 0)

\* The body of the try block once the response is there (lines 52-71).
ProcessResponse(http) ==
    IF http.status < 200 \/ http.status > 299 THEN Raises("HTTPStatusError")
    ELSE IF http.body.kind = "unparseable" THEN Raises("JSONDecodeError")
    ELSE LET result == http.body
             notin  == FeaturesNotIn(result)
         IN IF BodyFalsy(result) THEN Returns(StrValue(UNABLE_OR_NO_ALERTS))
            ELSE IF notin.exc # "" THEN notin
            ELSE IF notin.value THEN Returns(StrValue(UNABLE_OR_NO_ALERTS))
            ELSE IF result.kind # "obj" THEN Raises("AttributeError")
            ELSE IF FeaturesFalsy(result.features) THEN Returns(StrValue(NO_ALERTS))
            ELSE IF result.features.kind # "list" THEN Raises("TypeError")
            ELSE LET fs == result.features.items
                     alerts == [i \in 1..Len(fs) |-> format_alert(fs[i])]
                 IN IF \E i \in 1..Len(fs) : alerts[i].exc # ""
                    THEN Raises("AttributeError")
                    ELSE IF Len(alerts) = 0 THEN Returns(StrValue(NO_ALERTS))
                    ELSE Returns(StrValue(
                           Join([i \in 1..Len(fs) |-> alerts[i].value.text])))

\* The exception classes the tool's two handlers catch:
\* `except httpx.HTTPStatusError` and `except Exception`.
ToolExceptionClasses ==
    {"HTTPStatusError", "ConnectError", "JSONDecodeError", "TypeError", "AttributeError"}

\* A faulty variant: the second handler, `except Exception`, left out.
ToolHandles_StatusOnly(cls) == cls = "HTTPStatusError"

ToolHandles(cls) == cls \in ToolExceptionClasses

\* get_weather_alert_by_code: the request, the try block and its handlers.
get_weather_alert_by_code(code, http) ==
    LET tried == IF http.transport = "error" THEN Raises("ConnectError")
                 ELSE ProcessResponse(http)
    IN IF tried.exc = "" THEN tried
       ELSE IF ToolHandles(tried.exc) THEN Returns(NoneValue)
       ELSE tried

\* ================================================================= agent
MaxTools == 2
MaxQueryLen == 2
MaxHistory == 2
\* AgentExecutor is built at weather_agent.py:88 without max_iterations, so
\* the executor's own default cap applies; the model runs the same loop
\* under a smaller cap.
MaxRounds == 3

VARIABLES
    ctor_args,       \* the arguments given to WeatherAgent(...)
    agent,           \* the object under construction / constructed
    call,            \* one execute(query, chat_history) call
    caller_history,  \* the contents of the caller's chat_history object
    tool             \* a direct call of the tool (main.py func())

vars == <<ctor_args, agent, call, caller_history, tool>>

\* ------------------------------------------------------ constructor inputs
\* The llm argument: a BaseChatModel whose bind_tools works, a BaseChatModel
\* that keeps the base class's bind_tools (which raises NotImplementedError),
\* and an object that is no BaseChatModel.
LlmKinds == {"chat_model", "chat_model_no_bind_tools", "not_chat_model"}

WEATHER_TOOL == "get_weather_alert_by_code"
NOT_A_TOOL == "<not a BaseTool>"
ToolItems == {WEATHER_TOOL, NOT_A_TOOL}

\* The tools argument: a list, a tuple, or None.
ToolsArgs ==
    { [type |-> t, items |-> xs] : t \in {"list", "tuple"}, xs \in SeqUpTo(ToolItems, MaxTools) }
    \cup { [type |-> "NoneType", items |-> <<>>] }

\* isinstance(llm, BaseChatModel)
IsChatModel(llm) == llm \in {"chat_model", "chat_model_no_bind_tools"}

\* A faulty variant: the elements left unchecked.
IsToolList_ListOnly(tools) == tools.type = "list"

\* isinstance(tools, list) and all(isinstance(tool, BaseTool) for tool in tools)
IsToolList(tools) ==
    /\ tools.type = "list"
    /\ \A i \in 1..Len(tools.items) : tools.items[i] # NOT_A_TOOL

NoPrompt == [built |-> FALSE, tool_names |-> <<>>, messages |-> <<>>]
NoExecutor == [wired |-> FALSE, tools |-> <<>>]

NewAgent ==
    [pc |-> "start", attrs |-> {}, llm |-> "", tools |-> <<>>, tool_names |-> <<>>,
     agent_prompt |-> NoPrompt, agent_executor |-> NoExecutor, raised |-> ""]

\* BaseAgent.__init__ (called first by WeatherAgent.__init__).
BaseInit ==
    /\ agent.pc = "start"
    /\ IF ~IsChatModel(ctor_args.llm) \/ ~IsToolList(ctor_args.tools)
       THEN agent' = [agent EXCEPT !.pc = "raised", !.raised = "TypeError"]
       ELSE agent' = [agent EXCEPT !.pc = "base_done",
                                   !.attrs = {"llm", "tools", "agent_prompt"},
                                   !.llm = ctor_args.llm,
                                   !.tools = ctor_args.tools.items,
                                   !.agent_prompt = NoPrompt]
    /\ UNCHANGED <<ctor_args, call, caller_history, tool>>

\* self.tool_names = [tool.get_name() for tool in self.tools]
SetToolNames ==
    /\ agent.pc = "base_done"
    /\ IF \E i \in 1..Len(agent.tools) : agent.tools[i] = NOT_A_TOOL
       THEN agent' = [agent EXCEPT !.pc = "raised", !.raised = "AttributeError"]
       ELSE agent' = [agent EXCEPT !.pc = "names_done",
                                   !.attrs = @ \cup {"tool_names"},
                                   !.tool_names = agent.tools]
    /\ UNCHANGED <<ctor_args, call, caller_history, tool>>

\* _init_agent_prompt: the system text names the tools; then the history
\* placeholder, the human input and the scratchpad placeholder.
InitAgentPrompt ==
    /\ agent.pc = "names_done"
    /\ agent' = [agent EXCEPT
                   !.pc = "prompt_done",
                   !.agent_prompt =
                       [built |-> TRUE, tool_names |-> agent.tool_names,
                        messages |-> <<"system", "placeholder:chat_history",
                                       "human:input", "placeholder:agent_scratchpad">>]]
    /\ UNCHANGED <<ctor_args, call, caller_history, tool>>

\* llm.bind_tools(tools) inside create_tool_calling_agent.
BindToolsRaises(llm) == llm # "chat_model"

\* _init_agent: create_tool_calling_agent binds the tools to the llm, then
\* AgentExecutor is built over the same tools.  Nothing here is in a try.
InitAgent ==
    /\ agent.pc = "prompt_done"
    /\ IF BindToolsRaises(agent.llm)
       THEN agent' = [agent EXCEPT !.pc = "raised", !.raised = "NotImplementedError"]
       ELSE agent' = [agent EXCEPT
                        !.pc = "ready",
                        !.attrs = @ \cup {"agent", "agent_executor"},
                        !.agent_executor = [wired |-> TRUE, tools |-> agent.tools]]
    /\ UNCHANGED <<ctor_args, call, caller_history, tool>>

\* ---------------------------------------------------------- execute inputs
Whitespace == {" ", "\t", "\n"}

\* The query argument: a str (its characters), or None.
Queries ==
    { [is_str |-> TRUE, chars |-> cs] :
        cs \in SeqUpTo({" ", "a"}, MaxQueryLen)
               \cup { <<"\t">>, <<"\n", " ">>, <<"\t", "a", "\n">> } }
    \cup { [is_str |-> FALSE, chars |-> <<>>] }

\* An element of a history list: a well-formed turn, or something that is
\* no turn (a number).
USER_TURN == "turn:user"
ASSISTANT_TURN == "turn:assistant"
NOT_A_TURN == "<not a turn>"

\* The chat_history argument: a list, a str (its characters), or None.
Histories ==
    { [type |-> "list", items |-> xs] :
        xs \in SeqUpTo({USER_TURN, NOT_A_TURN}, MaxHistory)
               \cup { <<USER_TURN, ASSISTANT_TURN>> } }
    \cup { [type |-> "str", items |-> <<"h", "i">>],
           [type |-> "NoneType", items |-> <<>>] }

\* str.strip()
RECURSIVE LStrip(_)
LStrip(cs) ==
    IF Len(cs) > 0 /\ Head(cs) \in Whitespace THEN LStrip(Tail(cs)) ELSE cs

RECURSIVE RStrip(_)
RStrip(cs) ==
    IF Len(cs) > 0 /\ cs[Len(cs)] \in Whitespace
    THEN RStrip(SubSeq(cs, 1, Len(cs) - 1)) ELSE cs

\* A faulty variant: the query tested as given.
Strip_Nothing(cs) == cs

\* query.strip()
Strip(cs) == RStrip(LStrip(cs))

\* A faulty variant: the argument taken as it is.
NormalizeHistory_Unchecked(h) == h.items

\* `if not isinstance(chat_history, list): chat_history = []`: the list the
\* local name is bound to afterwards.
NormalizeHistory(h) == IF h.type = "list" THEN h.items ELSE <<>>

\* An exception: its class and str(e).
Exc(cls, msg) == [cls |-> cls, msg |-> msg]
NoExc == Exc("", "")

\* Classes that derive from BaseException but not from Exception.
BaseExceptionOnly == {"KeyboardInterrupt", "SystemExit", "GeneratorExit", "CancelledError"}

\* A faulty variant: `except ValueError`.
ExecuteHandles_ValueErrorOnly(e) == e.cls = "ValueError"

\* `except Exception as e` around the body of execute.
ExecuteHandles(e) == e.cls \notin BaseExceptionOnly

\* The values execute returns.  An executor result is the input dict plus the
\* key "output"; an error result is the one-key dict {"error": ...}.
NoResult == [kind |-> "none", text |-> <<>>]
OutputResult(text) == [kind |-> "output", text |-> text]
ErrorResult(text) == [kind |-> "error", text |-> text]

EMPTY_QUERY == <<"Empty query provided">>
UnableToProcess(e) == <<"Unable to process the  query: ", e.msg>>

NoRequest == [tool |-> "", args_ok |-> TRUE]

IdleCall ==
    [pc |-> "idle", query |-> [is_str |-> TRUE, chars |-> <<>>],
     history |-> [type |-> "NoneType", items |-> <<>>],
     formatted_query |-> <<>>, chat_history |-> <<>>,
     intermediate_steps |-> <<>>, iterations |-> 0, request |-> NoRequest,
     result |-> NoResult, raised |-> NoExc, engine_calls |-> 0, tool_calls |-> 0]

\* An exception raised inside the try block of execute: the handler turns it
\* into an error result; a class the handler does not name leaves execute.
Fail(c, e) ==
    IF ExecuteHandles(e)
    THEN [c EXCEPT !.pc = "returned", !.result = ErrorResult(UnableToProcess(e))]
    ELSE [c EXCEPT !.pc = "raised", !.raised = e]

\* execute, from its entry to the await of agent_executor.ainvoke: `after` is
\* what the caller's list holds once these lines have run.
ExecuteEntry(q, h, after) ==
    /\ agent.pc = "ready"
    /\ call.pc = "idle"
    /\ caller_history' = after
    /\ LET c == [call EXCEPT !.query = q, !.history = h,
                             !.chat_history = NormalizeHistory(h)]
       IN IF ~q.is_str
          THEN call' = Fail(c, Exc("AttributeError",
                                   "'NoneType' object has no attribute 'strip'"))
          ELSE IF Strip(q.chars) = <<>>
          THEN call' = [c EXCEPT !.pc = "returned", !.result = ErrorResult(EMPTY_QUERY)]
          ELSE call' = [c EXCEPT !.pc = "awaiting_engine",
                                 !.formatted_query = Strip(q.chars)]
    /\ UNCHANGED <<ctor_args, agent, tool>>

\* A faulty variant: the query is appended to the caller's list as a turn.
ExecuteBegin_AppendsTurn ==
    \E q \in Queries, h \in Histories : ExecuteEntry(q, h, Append(h.items, USER_TURN))

\* The caller calls execute(query, chat_history); the code reads the list and
\* rebinds its own local name, and writes nothing into the list.
ExecuteBegin ==
    \E q \in Queries, h \in Histories : ExecuteEntry(q, h, h.items)

\* ------------------------------------------------------ the executor loop
\* execute awaits agent_executor.ainvoke (weather_agent.py:122-128).  The
\* executor is LangChain's AgentExecutor, built in _init_agent with nothing but
\* the agent, the tools and verbose=True, so its defaults decide the loop:
\*   - a round: format the prompt, call the llm, parse its message; a final
\*     answer ends the loop, a tool call is acted on, the step is added to
\*     the executor's own intermediate_steps, and the next round starts;
\*   - a tool name that is not bound gives the observation
\*     "<name> is not a valid tool, try one of [...]." and the loop goes on;
\*   - handle_parsing_errors is off: a parsing fault is raised;
\*   - at the iteration cap the loop stops with early_stopping_method "force":
\*     the output is the stopped message, and nothing is raised.
\* The llm, its answers and its faults are inputs of the model.

\* Tool names the llm may ask for: the bound one and one that is not bound.
RequestedTools == {WEATHER_TOOL, "get_stock_price"}

\* The responses the weather API gives while the agent runs.
AgentHttpOutcomes ==
    { [transport |-> "ok", status |-> 404, body |-> NoBody],
      [transport |-> "ok", status |-> 200,
       body |-> [kind |-> "obj", other_keys |-> TRUE,
                 features |-> [kind |-> "list", items |-> <<>>]]] }

\* Exceptions of the llm call and of the parsing of its message.
EngineFaults ==
    { Exc("APIConnectionError", "Connection error."),
      Exc("ValueError", "An output parsing error occurred.") }

FINAL_ANSWER == <<"<the llm's final answer>">>
STOPPED == <<"Agent stopped due to max iterations.">>

\* The names of the tools the executor can run.
BoundNames == { agent.agent_executor.tools[i] : i \in 1..Len(agent.agent_executor.tools) }

\* The observation recorded for a tool name that is not bound.
InvalidToolObservation(name) ==
    StrValue(<<name, " is not a valid tool, try one of [">>
             \o agent.agent_executor.tools \o <<"].">>)

\* The step is added to the executor's list and the loop goes round.
NextRound(c, observation) ==
    [c EXCEPT !.pc = "awaiting_engine",
              !.intermediate_steps =
                  Append(@, [tool |-> c.request.tool, observation |-> observation]),
              !.iterations = @ + 1,
              !.request = NoRequest]

\* The history placeholder of the prompt takes turns only.
FormatPromptFails ==
    /\ call.pc = "awaiting_engine"
    /\ call.iterations < MaxRounds
    /\ \E i \in 1..Len(call.chat_history) : call.chat_history[i] = NOT_A_TURN
    /\ call' = Fail(call, Exc("NotImplementedError", "Unsupported message type"))
    /\ UNCHANGED <<ctor_args, agent, caller_history, tool>>

\* A faulty variant: the loop guard off by one.
PromptFormats_OneMore ==
    /\ call.pc = "awaiting_engine"
    /\ call.iterations <= MaxRounds
    /\ \A i \in 1..Len(call.chat_history) : call.chat_history[i] # NOT_A_TURN

\* The loop goes round while the cap is not reached; the prompt is formatted,
\* then the llm is called.
PromptFormats ==
    /\ call.pc = "awaiting_engine"
    /\ call.iterations < MaxRounds
    /\ \A i \in 1..Len(call.chat_history) : call.chat_history[i] # NOT_A_TURN

EngineAnswers ==
    /\ PromptFormats
    /\ call' = [call EXCEPT !.pc = "returned", !.result = OutputResult(FINAL_ANSWER),
                            !.engine_calls = @ + 1]
    /\ UNCHANGED <<ctor_args, agent, caller_history, tool>>

EngineRequestsTool ==
    /\ PromptFormats
    /\ \E name \in RequestedTools, ok \in BOOLEAN :
         call' = [call EXCEPT !.pc = "tool_requested",
                              !.request = [tool |-> name, args_ok |-> ok],
                              !.engine_calls = @ + 1]
    /\ UNCHANGED <<ctor_args, agent, caller_history, tool>>

EngineRaises ==
    /\ PromptFormats
    /\ \E e \in EngineFaults :
         call' = Fail([call EXCEPT !.engine_calls = @ + 1], e)
    /\ UNCHANGED <<ctor_args, agent, caller_history, tool>>

\* The requested tool is bound and its input fits the tool's schema: the tool
\* runs, and what it returns is the observation.
InvokeTool ==
    /\ call.pc = "tool_requested"
    /\ call.request.tool \in BoundNames
    /\ call.request.args_ok
    /\ \E http \in AgentHttpOutcomes :
         LET r == get_weather_alert_by_code("CA", http)
             c == [call EXCEPT !.tool_calls = @ + 1]
         IN call' = IF r.exc # "" THEN Fail(c, Exc(r.exc, "tool failed"))
                    ELSE NextRound(c, r.value)
    /\ UNCHANGED <<ctor_args, agent, caller_history, tool>>

\* The requested tool is bound and its input does not fit the schema (no
\* `code`): the tool's input validation raises before the tool runs.
InvokeToolBadInput ==
    /\ call.pc = "tool_requested"
    /\ call.request.tool \in BoundNames
    /\ ~call.request.args_ok
    /\ call' = Fail(call, Exc("ValidationError", "code: Field required"))
    /\ UNCHANGED <<ctor_args, agent, caller_history, tool>>

\* A variant in which a tool name that is not bound is a fault.
InvokeUnknownTool_Aborts ==
    /\ call.pc = "tool_requested"
    /\ call.request.tool \notin BoundNames
    /\ call' = Fail(call, Exc("ValueError", "unknown tool"))
    /\ UNCHANGED <<ctor_args, agent, caller_history, tool>>

\* The requested tool is not bound: the executor records that the name is
\* not a valid tool as the observation of the step, and goes on.
InvokeUnknownTool ==
    /\ call.pc = "tool_requested"
    /\ call.request.tool \notin BoundNames
    /\ call' = NextRound(call, InvalidToolObservation(call.request.tool))
    /\ UNCHANGED <<ctor_args, agent, caller_history, tool>>

\* The cap is reached: the executor stops and returns its stopped response
\* as the output.
RoundCap ==
    /\ call.pc = "awaiting_engine"
    /\ call.iterations >= MaxRounds
    /\ call' = [call EXCEPT !.pc = "returned", !.result = OutputResult(STOPPED)]
    /\ UNCHANGED <<ctor_args, agent, caller_history, tool>>

\* ------------------------------------------------------- a direct tool call
Codes == {"CA", "ny"}

IdleTool == [pc |-> "idle", code |-> "", http |-> [transport |-> "error", status |-> 0, body |-> NoBody],
             ret |-> Returns(NoneValue)]

\* await get_weather_alert_by_code(code)
ToolCall ==
    /\ tool.pc = "called"
    /\ tool' = [tool EXCEPT !.pc = "done",
                            !.ret = get_weather_alert_by_code(tool.code, tool.http)]
    /\ UNCHANGED <<ctor_args, agent, call, caller_history>>

\* ----------------------------------------------------------- specifications
Init ==
    /\ ctor_args \in [llm : LlmKinds, tools : ToolsArgs]
    /\ agent = NewAgent
    /\ call = IdleCall
    /\ caller_history = <<>>
    /\ tool = IdleTool

Next ==
    \/ BaseInit
    \/ SetToolNames
    \/ InitAgentPrompt
    \/ InitAgent
    \/ ExecuteBegin
    \/ FormatPromptFails
    \/ EngineAnswers
    \/ EngineRequestsTool
    \/ EngineRaises
    \/ InvokeTool
    \/ InvokeToolBadInput
    \/ InvokeUnknownTool
    \/ RoundCap

Spec == Init /\ [][Next]_vars

\* The tool alone, on every response of the model.
InitTool ==
    /\ ctor_args = [llm |-> "chat_model", tools |-> [type |-> "list", items |-> <<WEATHER_TOOL>>]]
    /\ agent = NewAgent
    /\ call = IdleCall
    /\ caller_history = <<>>
    /\ tool \in { [pc |-> "called", code |-> cd, http |-> h, ret |-> Returns(NoneValue)] :
                    cd \in Codes, h \in HttpOutcomes }

NextTool == ToolCall

SpecTool == InitTool /\ [][NextTool]_vars

\* ================================================================ claims
Started == call.pc # "idle"
Returned == call.pc = "returned"
Blank(cs) == \A i \in 1..Len(cs) : cs[i] \in Whitespace
UNSUPPORTED_TURN == "Unsupported message type"

\* C1: execute is total.  Whatever the query, the history and the faults of
\* the llm call, the tool call and the parsing, no exception leaves execute;
\* a call that has ended has returned an output or an error result, and a
\* query that is no str ends in an error result.
C1_ExecuteTotal ==
    /\ call.pc # "raised"
    /\ call.raised = NoExc
    /\ Returned => call.result.kind \in {"output", "error"}
    /\ ~Returned => call.result = NoResult
    /\ (Started /\ ~call.query.is_str) => (Returned /\ call.result.kind = "error")

\* An llm fault after a tool round, reported as an error result.
C1_Witness ==
    /\ Returned
    /\ call.tool_calls >= 1
    /\ call.result = ErrorResult(<<"Unable to process the  query: ", "Connection error.">>)

\* C2: an empty or whitespace-only query, with any history, returns
\* {"error": "Empty query provided"} with no llm call and no tool call.
C2_BlankQueryRejected ==
    (Started /\ call.query.is_str /\ Blank(call.query.chars)) =>
        /\ Returned
        /\ call.result = ErrorResult(<<"Empty query provided">>)
        /\ call.engine_calls = 0
        /\ call.tool_calls = 0
        /\ call.intermediate_steps = <<>>

\* A newline-and-space query given with a history that is no list.
C2_Witness ==
    /\ Returned
    /\ call.query.chars = <<"\n", " ">>
    /\ call.history.type = "str"
    /\ call.result.kind = "error"

\* A history that is not a well-formed sequence of turns.
Malformed(h) == h.type # "list" \/ \E i \in 1..Len(h.items) : h.items[i] = NOT_A_TURN
HistoryFailure ==
    /\ call.result.kind = "error"
    /\ Len(call.result.text) >= 2
    /\ call.result.text[2] = UNSUPPORTED_TURN

\* C3 as stated: with a non-empty query, every malformed history reaches the
\* llm as the empty history and never makes the call fail.
C3_Original ==
    (Started /\ call.query.is_str /\ ~Blank(call.query.chars) /\ Malformed(call.history)) =>
        /\ call.chat_history = <<>>
        /\ ~HistoryFailure

\* C3, amended: with a non-empty query, a history that is not a list (None, a
\* str) reaches the llm as the empty history and never makes the call fail; a
\* list is handed on as it is, whatever its elements.
C3_NonListHistoryIsEmpty ==
    (Started /\ call.query.is_str /\ ~Blank(call.query.chars)) =>
        /\ call.history.type # "list" => (call.chat_history = <<>> /\ ~HistoryFailure)
        /\ call.history.type = "list" => call.chat_history = call.history.items

\* A str history, and the llm answered.
C3_Witness ==
    /\ Returned
    /\ call.history.type = "str"
    /\ call.engine_calls >= 1
    /\ call.result = OutputResult(FINAL_ANSWER)

UnknownRequested == call.pc = "tool_requested" /\ call.request.tool \notin BoundNames

\* C4 as stated: a request for a tool that is not bound ends the call with an
\* error result, and the loop does not go back to the llm.
C4_Original ==
    [][UnknownRequested => (call'.pc = "returned" /\ call'.result.kind = "error")]_vars

\* C4, amended: a request for a tool that is not bound does not end the call.
\* No tool runs for it; the executor records "<name> is not a valid tool, ..."
\* as the observation of the step, counts the round, and goes back to the llm.
C4_UnknownToolFedBack ==
    [][UnknownRequested =>
         /\ call'.pc = "awaiting_engine"
         /\ call'.result = NoResult
         /\ call'.tool_calls = call.tool_calls
         /\ call'.iterations = call.iterations + 1
         /\ Len(call'.intermediate_steps) = Len(call.intermediate_steps) + 1
         /\ LET step == call'.intermediate_steps[Len(call'.intermediate_steps)]
            IN /\ step.tool = call.request.tool
               /\ ~step.observation.is_none
               /\ step.observation.text[1] = call.request.tool
               /\ step.observation.text[2] = " is not a valid tool, try one of ["]_vars

\* The llm asked for an unbound tool, was asked again, and answered.
C4_Witness ==
    /\ Returned
    /\ call.result = OutputResult(FINAL_ANSWER)
    /\ \E i \in 1..Len(call.intermediate_steps) :
         call.intermediate_steps[i].tool \notin BoundNames

\* C5 as stated: when the cap is reached execute reports an error result.
C5_Original ==
    (Returned /\ call.iterations >= MaxRounds) => call.result.kind = "error"

\* How far a call has got: it grows with every step of the call.
Progress(c) ==
    2 * c.iterations
    + (IF c.pc = "tool_requested" THEN 1 ELSE 0)
    + (IF c.pc \in {"returned", "raised"} THEN 2 * MaxRounds + 2 ELSE 0)

CapHolds ==
    /\ call.iterations <= MaxRounds
    /\ call.engine_calls <= MaxRounds
    /\ call.tool_calls <= MaxRounds
    /\ Len(call.intermediate_steps) = call.iterations
    /\ Progress(call) <= 4 * MaxRounds + 2
    /\ (Returned /\ call.iterations >= MaxRounds) => call.result = OutputResult(STOPPED)

\* C5, amended: every execute call terminates (each step of a call raises a
\* bounded measure); the llm is asked at most cap times, and when the cap is
\* reached the loop stops and execute returns the executor's stopped response
\* as an output, not an error.
C5_CapStopsLoop ==
    /\ []CapHolds
    /\ [][call.pc \in {"awaiting_engine", "tool_requested"} =>
            Progress(call') > Progress(call)]_vars

\* The llm asked for a tool in every round and the cap ended the call.
C5_Witness ==
    /\ Returned
    /\ call.iterations = MaxRounds
    /\ call.engine_calls = MaxRounds
    /\ call.result.kind = "output"

\* ------------------------------------------------------- the tool's claims
ToolDone == tool.pc = "done"
Ok2xx == tool.http.transport = "ok" /\ tool.http.status \in 200..299
FeatureList == tool.http.body.features.items

\* A body whose reading raises: no JSON; a document that is a non-zero
\* number, true, or an array or a string that holds "features"; a `features`
\* that is a non-zero number; a feature that is no object, or whose
\* properties are a non-zero number.
MalformedBody(b) ==
    \/ b.kind \in {"unparseable", "num", "true", "list_with_features", "str_with_features"}
    \/ b.kind = "obj" /\ b.features.kind = "num"
    \/ b.kind = "obj" /\ b.features.kind = "list"
       /\ \E i \in 1..Len(b.features.items) :
            b.features.items[i].kind \in {"not_dict", "props_num"}


\* C6: the tool never raises; a transport exception, a status that is not 2xx
\* and a malformed body each make it return None, which is not the
\* "No alerts found for the given state." string.
C6_ToolNeverRaises ==
    ToolDone =>
        /\ tool.ret.exc = ""
        /\ (tool.http.transport = "error" \/ ~Ok2xx \/ MalformedBody(tool.http.body)) =>
               /\ tool.ret.value.is_none
               /\ tool.ret.value # StrValue(NO_ALERTS)

\* A 2xx response whose JSON has a feature that is no object.
C6_Witness ==
    /\ ToolDone
    /\ Ok2xx
    /\ tool.http.body.kind = "obj"
    /\ tool.http.body.features.kind = "list"
    /\ Len(FeatureList) = 2
    /\ FeatureList[2].kind = "not_dict"
    /\ tool.ret = Returns(NoneValue)

EmptyFeatures(f) == f.kind = "null" \/ (f.kind = "list" /\ Len(f.items) = 0)

\* C7 as stated: a 2xx JSON object whose `features` is absent or empty gives
\* exactly "No alerts found for the given state.".
C7_Original ==
    (ToolDone /\ Ok2xx /\ tool.http.body.kind = "obj"
       /\ (tool.http.body.features.kind = "absent" \/ EmptyFeatures(tool.http.body.features))) =>
        tool.ret = Returns(StrValue(<<"No alerts found for the given state.">>))

\* C7, amended: a 2xx JSON object whose `features` is there and empty gives
\* exactly "No alerts found for the given state."; one without the key
\* `features` gives "Unable to fetch alerts or No alerts found for the given
\* state.".
C7_EmptyFeaturesSentinel ==
    (ToolDone /\ Ok2xx /\ tool.http.body.kind = "obj") =>
        /\ EmptyFeatures(tool.http.body.features) =>
               tool.ret = Returns(StrValue(<<"No alerts found for the given state.">>))
        /\ tool.http.body.features.kind = "absent" =>
               tool.ret = Returns(StrValue(
                   <<"Unable to fetch alerts or No alerts found for the given state.">>))

\* `features` is [] in an object that has other keys.
C7_Witness ==
    /\ ToolDone
    /\ Ok2xx
    /\ tool.http.body.kind = "obj"
    /\ tool.http.body.other_keys
    /\ tool.http.body.features.kind = "list"
    /\ Len(FeatureList) = 0
    /\ tool.ret.value.text = NO_ALERTS

\* The blocks of a joined text: the pieces between the separators.
RECURSIVE SplitBlocks(_)
SplitBlocks(text) ==
    IF \A i \in 1..Len(text) : text[i] # "\n---\n" THEN <<text>>
    ELSE LET k == CHOOSE i \in 1..Len(text) :
                    text[i] = "\n---\n" /\ \A j \in 1..(i - 1) : text[j] # "\n---\n"
         IN <<SubSeq(text, 1, k - 1)>> \o SplitBlocks(SubSeq(text, k + 1, Len(text)))

\* The five labelled lines, in order: label, key, placeholder.
Lines ==
    << <<"Event: ", "event", "Unknown">>,
       <<"Description: ", "description", "No description available">>,
       <<"Severity: ", "severity", "Unknown">>,
       <<"Area: ", "areaDesc", "Unknown">>,
       <<"Instructions: ", "instruction", "No instructions available">> >>

\* A block shows the five labels in order; after each, the value of the key
\* when the key is there (and not null), and the placeholder when it is not.
BlockShows(block, props) ==
    /\ Len(block) = 11
    /\ block[11] = "\n    "
    /\ \A n \in 1..5 :
         /\ block[2 * n - 1] = "\n        " \o Lines[n][1]
         /\ Lines[n][2] \notin DOMAIN props => block[2 * n] = Lines[n][3]
         /\ (Lines[n][2] \in DOMAIN props /\ props[Lines[n][2]] # JsonNull) =>
                block[2 * n] = props[Lines[n][2]]

\* A valid response with one feature or more, each an object.
ValidFeatures ==
    /\ ToolDone
    /\ Ok2xx
    /\ tool.http.body.kind = "obj"
    /\ tool.http.body.features.kind = "list"
    /\ Len(FeatureList) >= 1
    /\ \A i \in 1..Len(FeatureList) : FeatureList[i].kind \notin {"not_dict", "props_num"}

HasProps(f) == f.kind = "props" /\ DOMAIN f.props # {}

\* C8 as stated: n >= 1 features give n blocks in feature order joined by
\* "\n---\n", and every block shows the five labelled fields, a missing field
\* (also in a feature whose properties are missing or empty) as its
\* placeholder.
C8_Original ==
    ValidFeatures =>
        /\ tool.ret.exc = ""
        /\ ~tool.ret.value.is_none
        /\ LET blocks == SplitBlocks(tool.ret.value.text)
           IN /\ Len(blocks) = Len(FeatureList)
              /\ \A i \in 1..Len(FeatureList) : BlockShows(blocks[i], FeatureList[i].props)

\* C8, amended: n >= 1 features give n blocks in feature order joined by
\* "\n---\n"; the block of a feature whose properties hold a key or more shows
\* the five labelled fields, a missing field as its placeholder; the block of
\* a feature whose properties are missing, null or empty is the empty string.
C8_BlocksJoined ==
    ValidFeatures =>
        /\ tool.ret.exc = ""
        /\ ~tool.ret.value.is_none
        /\ LET blocks == SplitBlocks(tool.ret.value.text)
           IN /\ Len(blocks) = Len(FeatureList)
              /\ \A i \in 1..Len(FeatureList) :
                   IF HasProps(FeatureList[i])
                   THEN BlockShows(blocks[i], FeatureList[i].props)
                   ELSE blocks[i] = <<>>

\* Two features: the first without description and instruction, the second
\* with the event only.
C8_Witness ==
    /\ ValidFeatures
    /\ Len(FeatureList) = 2
    /\ FeatureList[1].kind = "props"
    /\ DOMAIN FeatureList[1].props = {"event", "severity", "areaDesc"}
    /\ FeatureList[2].kind = "props"
    /\ DOMAIN FeatureList[2].props = {"event"}
    /\ Len(tool.ret.value.text) = 23

\* ------------------------------------------------------ the agent's claims
\* C9: execute never changes the caller's history: at every point of a call,
\* whatever its outcome and however many tool rounds ran, the caller's list
\* holds the turns it held when the call was made, in the same order; the
\* steps go to the loop's own list.
C9_CallerHistoryUnchanged ==
    Started =>
        /\ caller_history = call.history.items
        /\ Len(call.intermediate_steps) = call.iterations
        /\ call.chat_history \in {call.history.items, <<>>}

\* A two-turn history, a tool round, and an answer.
C9_Witness ==
    /\ Returned
    /\ call.history = [type |-> "list", items |-> <<USER_TURN, ASSISTANT_TURN>>]
    /\ call.tool_calls >= 1
    /\ call.result.kind = "output"

IllTyped ==
    \/ ctor_args.llm = "not_chat_model"
    \/ ctor_args.tools.type # "list"
    \/ \E i \in 1..Len(ctor_args.tools.items) : ctor_args.tools.items[i] = NOT_A_TOOL

FailsFast ==
    /\ (IllTyped /\ agent.pc # "start") =>
          /\ agent.pc = "raised"
          /\ agent.raised = "TypeError"
          /\ agent.attrs = {}
          /\ ~agent.agent_prompt.built
          /\ ~agent.agent_executor.wired
    /\ agent.raised = "TypeError" => IllTyped
    /\ Started =>
          /\ agent.pc = "ready"
          /\ agent.agent_prompt.built
          /\ agent.agent_executor.wired
          /\ agent.agent_executor.tools = ctor_args.tools.items

\* C10 as stated: ill-typed arguments make the construction raise a type
\* error before the prompt and the loop are set up, no agent without them is
\* ever executed, and that type error is the only exception the agent raises.
C10_Original ==
    /\ FailsFast
    /\ agent.raised \in {"", "TypeError"}
    /\ call.raised = NoExc

\* C10, amended: ill-typed arguments make the construction raise a type error
\* before the prompt and the loop are set up, and no agent without them is
\* ever executed; execute raises nothing; the construction also raises when
\* the wiring of the loop does: a chat model that cannot bind tools gives
\* NotImplementedError, after the prompt is built and before the loop is set.
C10_ConstructionFailsFast ==
    /\ FailsFast
    /\ call.raised = NoExc
    /\ agent.raised \in {"", "TypeError", "NotImplementedError"}
    /\ agent.raised = "NotImplementedError" =>
          /\ ~IllTyped
          /\ ctor_args.llm = "chat_model_no_bind_tools"
          /\ agent.agent_prompt.built
          /\ ~agent.agent_executor.wired

\* A chat model given a list that holds something that is no tool.
C10_Witness ==
    /\ agent.pc = "raised"
    /\ agent.raised = "TypeError"
    /\ ctor_args.llm = "chat_model"
    /\ ctor_args.tools = [type |-> "list", items |-> <<WEATHER_TOOL, NOT_A_TOOL>>]

====
